---- MODULE Spec2Model ----
(***************************************************************************)
(* Verification model of icon.viewer: IconService (load_icon,              *)
(* save_image_bytes), IconViewerController (open_file, select_index,       *)
(* get_selected...) and the list part of the Flet UI in main.py            *)
(* (rebuild_list, open_icon, the tile tap handler).                        *)
(*                                                                         *)
(* Images are abstracted to their size, mode and a pixel provenance term   *)
(* px: <<"frame", i>> is the i-th frame the decoder yields (0-based, as    *)
(* im.seek(i)), <<"top", 0>> the container's top-level image, and          *)
(* <<"resize", px, w, h>> the result of resizing the image with pixels px. *)
(* Optional[int] / Optional[str] are <<>> (None) or <<v>>.                 *)
(***************************************************************************)
EXTENDS Integers, Sequences, FiniteSets, TLC

VARIABLES
    file,            \* load_icon run: the opened container (input)
    load_out,        \* load_icon run: outcome, [status, images]
    images,          \* IconViewerController.images
    selected_index,  \* IconViewerController.selected_index
    current_file,    \* IconViewerController.current_file
    call,            \* last controller call: [op, path, index, outcome, ret]
    prev,            \* controller fields right before the last call
    tiles,           \* list_view.controls: Seq of [title, idx, selected]
    view,            \* image, status_text, save_btn and the snack bar
    fs,              \* output files: path -> bytes ([fmt |-> "absent"] if none)
    save_call,       \* last save_image_bytes call: [data, path, outcome]
    prev_fs          \* fs right before the last save_image_bytes call

vars == <<file, load_out, images, selected_index, current_file, call, prev,
          tiles, view, fs, save_call, prev_fs>>

(***************************************************************************)
(* Bounds of the input space.                                              *)
(***************************************************************************)
MaxFrames == 2
MaxDeclared == 2
MaxIndex == 4

\* Sizes a container may hold or declare: a small one and three of equal area.
SizePool == {<<16, 16>>, <<16, 64>>, <<32, 32>>, <<64, 16>>}

SeqsUpTo(S, n) == UNION {[1..k -> S] : k \in 0..n}

None == <<>>
Some(v) == <<v>>

Max(a, b) == IF a > b THEN a ELSE b

(***************************************************************************)
(* Pillow image operations used by the service.                            *)
(***************************************************************************)
NoImage == [size |-> <<0, 0>>, mode |-> "none", px |-> <<"none", 0>>]

\* im.seek(i) raises EOFError when the container has no frame i.
SeekOk(im, i) == i < Len(im.frames)

\* im.seek(i); im.copy().convert("RGBA")
FrameAt(im, i) == [size |-> im.frames[i + 1], mode |-> "RGBA", px |-> <<"frame", i>>]

\* im.copy().convert("RGBA") with no successful seek: the top-level image.
TopImage(im) == [size |-> im.top, mode |-> "RGBA", px |-> <<"top", 0>>]

\* Image.resize(size, resample=LANCZOS)
Resize(img, size) ==
    [size |-> size, mode |-> img.mode,
     px |-> <<"resize", img.px, size[1], size[2]>>]

\* len() of an encoded payload; the encodings are not modelled bit by bit.
ByteLen(fmt, img) ==
    (IF fmt = "PNG" THEN 8 ELSE 2) + img.size[1] * img.size[2]

\* out_img.save(buf, format="PNG"); buf.getvalue()
EncodePNG(img) == [fmt |-> "PNG", img |-> img, len |-> ByteLen("PNG", img), q |-> 0]

Area(s) == s[1] * s[2]

(***************************************************************************)
(* IconService.load_icon                                                   *)
(***************************************************************************)
\* frames_by_size[k] = v on a dict
\* Faulty variant: an existing key is not overwritten.
DictSetKeepFirst(d, k, v) ==
    IF k \in DOMAIN d THEN d ELSE [x \in DOMAIN d \cup {k} |-> IF x = k THEN v ELSE d[x]]
DictSet(d, k, v) ==
    [x \in DOMAIN d \cup {k} |-> IF x = k THEN v ELSE d[x]]

EmptyDict == [x \in {} |-> NoImage]

\* the update of largest_frame in the loop body
\* Faulty variant: the last frame seen is taken as the largest.
LargestUpdateLast(largest, fr) ==
    fr
LargestUpdate(largest, fr) ==
    IF largest = NoImage \/ Area(fr.size) > Area(largest.size) THEN fr ELSE largest

\* getattr(im, "n_frames", 1); range(max(1, frame_count))
FrameCount(im) == Max(1, im.n_frames)

\* The frame loop from index i on; st = [frames_by_size, largest_frame].
RECURSIVE CollectFrames(_, _, _)
CollectFrames(im, i, st) ==
    IF i >= FrameCount(im) \/ ~SeekOk(im, i)
    THEN st
    ELSE LET fr == FrameAt(im, i)
         IN  CollectFrames(im, i + 1,
                 [frames_by_size |-> DictSet(st.frames_by_size, fr.size, fr),
                  largest_frame |-> LargestUpdate(st.largest_frame, fr)])

\* The loop, then the fallback to the current image when nothing was collected.
Collected(im) ==
    LET st == CollectFrames(im, 0, [frames_by_size |-> EmptyDict, largest_frame |-> NoImage])
    IN  IF st.largest_frame = NoImage
        THEN [frames_by_size |-> DictSet(st.frames_by_size, im.top, TopImage(im)),
              largest_frame |-> TopImage(im)]
        ELSE st

\* key=lambda s: (s[0] * s[1], s[0], s[1])
SizeKeyLess(a, b) ==
    \/ Area(a) < Area(b)
    \/ Area(a) = Area(b) /\ a[1] < b[1]
    \/ Area(a) = Area(b) /\ a[1] = b[1] /\ a[2] < b[2]

\* sorted(set(...), key=...): the key is injective on sizes, so the order of
\* the set's iteration does not show in the result.
RECURSIVE SortedSizes(_)
SortedSizes(S) ==
    IF S = {} THEN <<>>
    ELSE LET m == CHOOSE x \in S : \A y \in S \ {x} : SizeKeyLess(x, y)
         IN  <<m>> \o SortedSizes(S \ {m})

SeqRange(s) == {s[i] : i \in 1..Len(s)}

\* im.info.get("sizes") or list(frames_by_size.keys()), deduplicated and sorted
\* Faulty variant: the declared list is used without set() and sorted().
TargetSizesNoDedupe(im, frames_by_size) ==
    IF im.sizes # <<>> THEN im.sizes ELSE SortedSizes(DOMAIN frames_by_size)
TargetSizes(im, frames_by_size) ==
    SortedSizes(IF im.sizes # <<>> THEN SeqRange(im.sizes) ELSE DOMAIN frames_by_size)

\* the body of "for size in target_sizes" up to out_img
OutImg(size, st) ==
    IF size \in DOMAIN st.frames_by_size
    THEN st.frames_by_size[size]
    ELSE Resize(st.largest_frame, size)

\* IconImage(width=size[0], height=size[1], size_bytes=len(data), png_bytes=data)
IconImage(size, data) ==
    [width |-> size[1], height |-> size[2], size_bytes |-> data.len, png_bytes |-> data]

\* images.sort(key=lambda ii: (ii.width * ii.height, ii.width, ii.height)):
\* a stable insertion sort.
RECURSIVE InsertSorted(_, _)
InsertSorted(s, x) ==
    IF s = <<>> THEN <<x>>
    ELSE IF SizeKeyLess(<<x.width, x.height>>, <<s[Len(s)].width, s[Len(s)].height>>)
         THEN InsertSorted(SubSeq(s, 1, Len(s) - 1), x) \o <<s[Len(s)]>>
         ELSE s \o <<x>>

RECURSIVE SortImages(_)
SortImages(s) ==
    IF s = <<>> THEN <<>>
    ELSE InsertSorted(SortImages(SubSeq(s, 1, Len(s) - 1)), s[Len(s)])

\* load_icon once Image.open has succeeded
\* Faulty variant: the im.format check is missing.
LoadOpenedNoFormatCheck(im) ==
    LET st == Collected(im)
        target_sizes == TargetSizes(im, st.frames_by_size)
        built == [j \in 1..Len(target_sizes) |->
                     IconImage(target_sizes[j], EncodePNG(OutImg(target_sizes[j], st)))]
    IN  [status |-> "ok", images |-> SortImages(built)]
LoadOpened(im) ==
    IF im.fmt # "ICO"
    THEN [status |-> "ValueError", images |-> <<>>]
    ELSE LET st == Collected(im)
             target_sizes == TargetSizes(im, st.frames_by_size)
             built == [j \in 1..Len(target_sizes) |->
                          IconImage(target_sizes[j], EncodePNG(OutImg(target_sizes[j], st)))]
         IN  [status |-> "ok", images |-> SortImages(built)]

\* IconService.load_icon: Image.open raises on a file it cannot identify.
load_icon(im) ==
    IF im.fmt = "unidentified"
    THEN [status |-> "UnidentifiedImageError", images |-> <<>>]
    ELSE LoadOpened(im)

(***************************************************************************)
(* IconImage.label and the controller                                      *)
(***************************************************************************)
DigitChar(d) ==
    CASE d = 0 -> "0" [] d = 1 -> "1" [] d = 2 -> "2" [] d = 3 -> "3" [] d = 4 -> "4"
      [] d = 5 -> "5" [] d = 6 -> "6" [] d = 7 -> "7" [] d = 8 -> "8" [] d = 9 -> "9"

\* str(n) for n >= 0
RECURSIVE Str(_)
Str(n) == IF n < 10 THEN DigitChar(n) ELSE Str(n \div 10) \o DigitChar(n % 10)

\* IconImage.label: f"{self.width}x{self.height}"
Label(img) == Str(img.width) \o "x" \o Str(img.height)

\* IconViewerController.get_labels
get_labels(imgs) == [j \in 1..Len(imgs) |-> Label(imgs[j])]

\* The files open_file is called on: path -> container.
Ico(n, frames, top, sizes) ==
    [fmt |-> "ICO", n_frames |-> n, frames |-> frames, top |-> top, sizes |-> sizes]

Disk ==
    [p \in {"a.ico", "b.ico", "c.ico", "d.ico", "e.ico", "plain.png", "broken.ico"} |->
       CASE p = "a.ico" -> Ico(2, <<<<16, 16>>, <<32, 32>>>>, <<32, 32>>,
                               <<<<32, 32>>, <<16, 16>>>>)
         [] p = "b.ico" -> Ico(1, <<<<32, 32>>>>, <<32, 32>>,
                               <<<<16, 16>>, <<32, 32>>, <<64, 16>>>>)
         [] p = "c.ico" -> Ico(1, <<<<32, 32>>>>, <<32, 32>>, <<>>)
         [] p = "d.ico" -> Ico(0, <<>>, <<16, 64>>, <<<<16, 64>>, <<64, 16>>, <<16, 16>>, <<32, 32>>>>)
         [] p = "e.ico" -> Ico(3, <<<<64, 16>>, <<16, 16>>, <<64, 16>>>>, <<64, 16>>, <<>>)
         [] p = "plain.png" ->
                [fmt |-> "PNG", n_frames |-> 1, frames |-> <<<<32, 32>>>>,
                 top |-> <<32, 32>>, sizes |-> <<>>]
         [] p = "broken.ico" ->
                [fmt |-> "unidentified", n_frames |-> 0, frames |-> <<>>,
                 top |-> <<16, 16>>, sizes |-> <<>>]]

Paths == DOMAIN Disk

Snapshot == [images |-> images, selected_index |-> selected_index,
             current_file |-> current_file]

NoCall == [op |-> "none", path |-> "", index |-> 0, outcome |-> "none", ret |-> <<>>]

\* IconViewerController.open_file; a raise in load_icon leaves before any assignment.
\* Faulty variant: an existing selection survives the open.
open_file_KeepSelection(file_path) ==
    LET r == load_icon(Disk[file_path])
    IN  /\ prev' = Snapshot
        /\ IF r.status # "ok"
           THEN /\ UNCHANGED <<images, selected_index, current_file>>
                /\ call' = [op |-> "open_file", path |-> file_path, index |-> 0,
                            outcome |-> r.status, ret |-> <<>>]
           ELSE /\ images' = r.images
                /\ current_file' = Some(file_path)
                /\ selected_index' = IF selected_index = None THEN Some(0) ELSE selected_index
                /\ call' = [op |-> "open_file", path |-> file_path, index |-> 0,
                            outcome |-> "ok", ret |-> get_labels(r.images)]
\* Faulty variant: the loaded entries are appended to the old list.
open_file_Append(file_path) ==
    LET r == load_icon(Disk[file_path])
    IN  /\ prev' = Snapshot
        /\ IF r.status # "ok"
           THEN /\ UNCHANGED <<images, selected_index, current_file>>
                /\ call' = [op |-> "open_file", path |-> file_path, index |-> 0,
                            outcome |-> r.status, ret |-> <<>>]
           ELSE /\ images' = images \o r.images
                /\ current_file' = Some(file_path)
                /\ selected_index' = IF images' # <<>> THEN Some(0) ELSE None
                /\ call' = [op |-> "open_file", path |-> file_path, index |-> 0,
                            outcome |-> "ok", ret |-> get_labels(images')]
\* Faulty variant: current_file is assigned before load_icon runs.
open_file_PathFirst(file_path) ==
    LET r == load_icon(Disk[file_path])
    IN  /\ prev' = Snapshot
        /\ current_file' = Some(file_path)
        /\ IF r.status # "ok"
           THEN /\ UNCHANGED <<images, selected_index>>
                /\ call' = [op |-> "open_file", path |-> file_path, index |-> 0,
                            outcome |-> r.status, ret |-> <<>>]
           ELSE /\ images' = r.images
                /\ selected_index' = IF r.images # <<>> THEN Some(0) ELSE None
                /\ call' = [op |-> "open_file", path |-> file_path, index |-> 0,
                            outcome |-> "ok", ret |-> get_labels(r.images)]
open_file(file_path) ==
    LET r == load_icon(Disk[file_path])
    IN  /\ prev' = Snapshot
        /\ IF r.status # "ok"
           THEN /\ UNCHANGED <<images, selected_index, current_file>>
                /\ call' = [op |-> "open_file", path |-> file_path, index |-> 0,
                            outcome |-> r.status, ret |-> <<>>]
           ELSE /\ images' = r.images
                /\ current_file' = Some(file_path)
                /\ selected_index' = IF r.images # <<>> THEN Some(0) ELSE None
                /\ call' = [op |-> "open_file", path |-> file_path, index |-> 0,
                            outcome |-> "ok", ret |-> get_labels(r.images)]

\* IconViewerController.select_index
\* Faulty variant: index == len(images) is accepted.
select_index_OffByOne(index) ==
    /\ prev' = Snapshot
    /\ UNCHANGED <<images, current_file>>
    /\ IF images = <<>>
       THEN /\ selected_index' = None
            /\ call' = [op |-> "select_index", path |-> "", index |-> index,
                        outcome |-> "ok", ret |-> <<>>]
       ELSE IF index < 0 \/ index > Len(images)
       THEN /\ UNCHANGED selected_index
            /\ call' = [op |-> "select_index", path |-> "", index |-> index,
                        outcome |-> "IndexError", ret |-> <<>>]
       ELSE /\ selected_index' = Some(index)
            /\ call' = [op |-> "select_index", path |-> "", index |-> index,
                        outcome |-> "ok", ret |-> <<>>]
select_index(index) ==
    /\ prev' = Snapshot
    /\ UNCHANGED <<images, current_file>>
    /\ IF images = <<>>
       THEN /\ selected_index' = None
            /\ call' = [op |-> "select_index", path |-> "", index |-> index,
                        outcome |-> "ok", ret |-> <<>>]
       ELSE IF index < 0 \/ index >= Len(images)
       THEN /\ UNCHANGED selected_index
            /\ call' = [op |-> "select_index", path |-> "", index |-> index,
                        outcome |-> "IndexError", ret |-> <<>>]
       ELSE /\ selected_index' = Some(index)
            /\ call' = [op |-> "select_index", path |-> "", index |-> index,
                        outcome |-> "ok", ret |-> <<>>]

\* IconViewerController.get_selected: "IndexError" stands for images[i] out of range.
get_selected(imgs, sel) ==
    IF sel = None THEN "None"
    ELSE IF sel[1] + 1 \in 1..Len(imgs) THEN "image" ELSE "IndexError"

\* IconViewerController.get_selected_png_bytes
NoBytes == [fmt |-> "none", img |-> NoImage, len |-> 0, q |-> 0]
get_selected_png_bytes(imgs, sel) ==
    IF sel = None THEN NoBytes ELSE imgs[sel[1] + 1].png_bytes

(***************************************************************************)
(* main.py: the list of sizes and the preview                              *)
(***************************************************************************)
\* Python's "x or d" on an Optional[int]: None and 0 are both falsy.
PyOr(x, d) == IF x = None \/ x = Some(0) THEN d ELSE x[1]

\* rebuild_list: one ListTile per label, selected computed when the tile is built.
rebuild_list(imgs, sel) ==
    LET labels == get_labels(imgs)
    IN  [j \in 1..Len(labels) |->
            [title |-> labels[j], idx |-> j - 1, selected |-> (j - 1 = PyOr(sel, -1))]]

\* update_image_from_selection
update_image_from_selection(imgs, sel, snack) ==
    LET data == get_selected_png_bytes(imgs, sel)
        has_image == data.len > 0
    IN  [image_src |-> IF has_image THEN data ELSE NoBytes,
         image_visible |-> has_image,
         status_visible |-> ~has_image,
         save_disabled |-> ~has_image,
         snack |-> snack]

InitView == [image_src |-> NoBytes, image_visible |-> FALSE, status_visible |-> TRUE,
             save_disabled |-> TRUE, snack |-> "none"]

\* open_icon: a failed open shows the snack bar and returns before rebuild_list.
open_icon(file_path) ==
    /\ open_file(file_path)
    /\ IF call'.outcome # "ok"
       THEN /\ view' = [view EXCEPT !.snack = "Failed to open icon"]
            /\ UNCHANGED tiles
       ELSE /\ tiles' = rebuild_list(images', selected_index')
            /\ view' = update_image_from_selection(images', selected_index', view.snack)

\* _tap of the i-th tile: select_index(i), then update_image_from_selection.
\* The tiles themselves are not rebuilt.
tap(i) ==
    /\ select_index(tiles[i + 1].idx)
    /\ UNCHANGED tiles
    /\ IF call'.outcome = "ok"
       THEN view' = update_image_from_selection(images', selected_index', view.snack)
       ELSE UNCHANGED view

(***************************************************************************)
(* IconService.save_image_bytes                                            *)
(***************************************************************************)
\* Paths are sequences of characters.
UpperAlpha == <<"A", "B", "C", "D", "E", "F", "G", "H", "I", "J", "K", "L", "M",
                "N", "O", "P", "Q", "R", "S", "T", "U", "V", "W", "X", "Y", "Z">>
LowerAlpha == <<"a", "b", "c", "d", "e", "f", "g", "h", "i", "j", "k", "l", "m",
                "n", "o", "p", "q", "r", "s", "t", "u", "v", "w", "x", "y", "z">>

\* str.lower()
LowerChar(c) ==
    IF \E k \in 1..Len(UpperAlpha) : UpperAlpha[k] = c
    THEN LowerAlpha[CHOOSE k \in 1..Len(UpperAlpha) : UpperAlpha[k] = c]
    ELSE c
Lower(str) == [k \in 1..Len(str) |-> LowerChar(str[k])]

\* str.rfind(c): 0-based index of the last c, -1 if none
RFind(str, c) ==
    IF \E k \in 1..Len(str) : str[k] = c
    THEN (CHOOSE k \in 1..Len(str) : str[k] = c /\ \A m \in (k + 1)..Len(str) : str[m] # c) - 1
    ELSE -1

\* PurePath.name: the final path component
PathName(path) == SubSeq(path, RFind(path, "/") + 2, Len(path))

\* PurePath.suffix: from the last dot of the name, unless that dot is the
\* first or the last character of the name
Suffix(path) ==
    LET name == PathName(path)
        i == RFind(name, ".")
    IN  IF 0 < i /\ i < Len(name) - 1 THEN SubSeq(name, i + 1, Len(name)) ELSE <<>>

\* Path(out_path).suffix.lower()
Ext(out_path) == Lower(Suffix(out_path))

DotPng == <<".", "p", "n", "g">>
DotJpg == <<".", "j", "p", "g">>
DotJpeg == <<".", "j", "p", "e", "g">>

\* jpg_bg=(255, 255, 255), quality=95
White == <<255, 255, 255>>
DefaultQuality == 95

\* Image.open(BytesIO(data)) identifies the payload or raises.
Decodable(data) == data.fmt \in {"PNG", "JPEG"}
Decode(data) == data.img

\* im.convert("RGBA"); bg = Image.new("RGB", im.size, bg); bg.paste(im, mask=alpha)
Flatten(img, bg) ==
    [size |-> img.size, mode |-> "RGB", px |-> <<"flatten", img.px, bg>>]

\* bg.save(buf, format="JPEG", quality=int(quality)); buf.getvalue()
EncodeJPEG(img, quality) ==
    [fmt |-> "JPEG", img |-> img, len |-> ByteLen("JPEG", img), q |-> quality]

Absent == [fmt |-> "absent", img |-> NoImage, len |-> 0, q |-> 0]
EmptyBytes == [fmt |-> "raw", img |-> NoImage, len |-> 0, q |-> 0]
Garbage == [fmt |-> "raw", img |-> NoImage, len |-> 3, q |-> 0]

ErrEmpty == "ValueError: No image data to save"
ErrUnsupported == "ValueError: Unsupported export extension"
ErrDecode == "UnidentifiedImageError"

\* save_image_bytes(data, out_path) with the default jpg_bg and quality
\* Faulty variant: the .png write precedes the checks; no JPEG branch.
save_image_bytes_WriteFirst(data, out_path) ==
    /\ prev_fs' = fs
    /\ IF Ext(out_path) = DotPng
       THEN /\ fs' = [fs EXCEPT ![out_path] = data]
            /\ save_call' = [data |-> data, path |-> out_path,
                             outcome |-> IF data.len = 0 THEN ErrEmpty ELSE "ok"]
       ELSE /\ UNCHANGED fs
            /\ save_call' = [data |-> data, path |-> out_path,
                             outcome |-> IF data.len = 0 THEN ErrEmpty ELSE ErrUnsupported]
save_image_bytes(data, out_path) ==
    /\ prev_fs' = fs
    /\ IF data.len = 0
       THEN /\ UNCHANGED fs
            /\ save_call' = [data |-> data, path |-> out_path, outcome |-> ErrEmpty]
       ELSE IF Ext(out_path) = DotPng
       THEN /\ fs' = [fs EXCEPT ![out_path] = data]
            /\ save_call' = [data |-> data, path |-> out_path, outcome |-> "ok"]
       ELSE IF Ext(out_path) \in {DotJpg, DotJpeg}
       THEN IF ~Decodable(data)
            THEN /\ UNCHANGED fs
                 /\ save_call' = [data |-> data, path |-> out_path, outcome |-> ErrDecode]
            ELSE /\ fs' = [fs EXCEPT ![out_path] =
                              EncodeJPEG(Flatten(Decode(data), White), DefaultQuality)]
                 /\ save_call' = [data |-> data, path |-> out_path, outcome |-> "ok"]
       ELSE /\ UNCHANGED fs
            /\ save_call' = [data |-> data, path |-> out_path, outcome |-> ErrUnsupported]

(***************************************************************************)
(* Inputs                                                                  *)
(***************************************************************************)
\* Containers Image.open may be given: icon containers with any reported
\* frame count, seekable frames, top-level image and declared sizes; plain
\* PNG files; files Pillow cannot identify.
IcoFiles ==
    {Ico(n, fr, top, sz) : n \in 0..MaxFrames, fr \in SeqsUpTo(SizePool, MaxFrames),
                           top \in SizePool, sz \in SeqsUpTo(SizePool, MaxDeclared)}
PngFiles ==
    {[fmt |-> "PNG", n_frames |-> 1, frames |-> <<s>>, top |-> s, sizes |-> <<>>] :
        s \in SizePool}
BrokenFile ==
    [fmt |-> "unidentified", n_frames |-> 0, frames |-> <<>>, top |-> <<16, 16>>,
     sizes |-> <<>>]
IconFiles == IcoFiles \cup PngFiles \cup {BrokenFile}

\* select_index arguments: below, inside and beyond every list length.
SelectArgs == (0 - MaxIndex)..MaxIndex

\* Payloads handed to save_image_bytes.
DataPool ==
    {EmptyBytes, Garbage,
     EncodePNG([size |-> <<16, 16>>, mode |-> "RGBA", px |-> <<"frame", 0>>]),
     EncodePNG(Resize([size |-> <<32, 32>>, mode |-> "RGBA", px |-> <<"frame", 0>>],
                      <<64, 16>>))}

OutPaths ==
    {<<"o", ".", "p", "n", "g">>, <<"o", ".", "P", "n", "G">>,
     <<"o", ".", "j", "p", "g">>, <<"o", ".", "J", "P", "E", "G">>,
     <<"o", ".", "j", "p", "e", "g">>, <<"o", ".", "b", "m", "p">>,
     <<"o", "u", "t">>, <<".", "p", "n", "g">>,
     <<"d", ".", "j", "p", "g", "/", "o">>, <<"o", ".", "p", "n", "g", ".", "t", "x", "t">>}

(***************************************************************************)
(* Specifications                                                          *)
(***************************************************************************)
loadVars == <<file, load_out>>
ctlVars == <<images, selected_index, current_file, call, prev>>
uiVars == <<tiles, view>>
saveVars == <<fs, save_call, prev_fs>>

InitLoadIdle ==
    /\ file = BrokenFile
    /\ load_out = [status |-> "idle", images |-> <<>>]

\* IconViewerController(service=service): the dataclass defaults
InitController ==
    /\ images = <<>>
    /\ selected_index = None
    /\ current_file = None
    /\ call = NoCall
    /\ prev = [images |-> <<>>, selected_index |-> None, current_file |-> None]

\* main(page): an empty list_view, the image hidden, the save button disabled
InitUI ==
    /\ tiles = <<>>
    /\ view = InitView

InitSave ==
    /\ fs = [p \in OutPaths |-> Absent]
    /\ save_call = [data |-> EmptyBytes, path |-> <<>>, outcome |-> "none"]
    /\ prev_fs = fs

\* The controller driven directly: open_file and select_index in any order.
Init == InitLoadIdle /\ InitController /\ InitUI /\ InitSave

OpenFile ==
    \E p \in Paths : open_file(p) /\ UNCHANGED <<loadVars, uiVars, saveVars>>

SelectIndex ==
    \E i \in SelectArgs : select_index(i) /\ UNCHANGED <<loadVars, uiVars, saveVars>>

Next == OpenFile \/ SelectIndex

Spec == Init /\ [][Next]_vars

\* load_icon as a function of the container it is given.
InitLoad ==
    /\ file \in IconFiles
    /\ load_out = [status |-> "pending", images |-> <<>>]
    /\ InitController /\ InitUI /\ InitSave

LoadIcon ==
    /\ load_out.status = "pending"
    /\ load_out' = load_icon(file)
    /\ UNCHANGED <<file, ctlVars, uiVars, saveVars>>

NextLoad == LoadIcon

SpecLoad == InitLoad /\ [][NextLoad]_vars

\* The window: files are opened through open_icon, sizes chosen by tapping tiles.
OpenIcon ==
    \E p \in Paths : open_icon(p) /\ UNCHANGED <<loadVars, saveVars>>

Tap ==
    \E i \in 0..(Len(tiles) - 1) : tap(i) /\ UNCHANGED <<loadVars, saveVars>>

NextUI == OpenIcon \/ Tap

SpecUI == Init /\ [][NextUI]_vars

\* save_image_bytes called with any payload and output path.
SaveImageBytes ==
    \E d \in DataPool, p \in OutPaths :
        save_image_bytes(d, p) /\ UNCHANGED <<loadVars, ctlVars, uiVars>>

NextSave == SaveImageBytes

SpecSave == Init /\ [][NextSave]_vars

(***************************************************************************)
(* Properties                                                              *)
(***************************************************************************)
\* What the frame loop of a load_icon run decoded, in decode order: indices
\* 0 .. NDecoded-1 of the container, or the top-level image if none.
NDecoded(f) ==
    LET asked == IF f.n_frames < 1 THEN 1 ELSE f.n_frames
    IN  IF asked < Len(f.frames) THEN asked ELSE Len(f.frames)
DecodedFrames(f) ==
    IF NDecoded(f) = 0 THEN {TopImage(f)} ELSE {FrameAt(f, i) : i \in 0..(NDecoded(f) - 1)}

Loaded == load_out.status \notin {"idle", "pending"}
OutSize(e) == <<e.width, e.height>>
Out == load_out.images

\* Ascending by area, ties by width, then by height; strict.
Before(a, b) ==
    \/ a[1] * a[2] < b[1] * b[2]
    \/ a[1] * a[2] = b[1] * b[2] /\ a[1] < b[1]
    \/ a[1] * a[2] = b[1] * b[2] /\ a[1] = b[1] /\ a[2] < b[2]

\* C1: for an icon container declaring a non-empty size list S, load_icon
\* returns exactly |unique(S)| entries, each of a size in S, no two of the
\* same size, in ascending order of area, then width, then height.
C1_DeclaredSizesExactlyOnceSorted ==
    (Loaded /\ file.fmt = "ICO" /\ file.sizes # <<>>) =>
        /\ load_out.status = "ok"
        /\ Len(Out) = Cardinality(SeqRange(file.sizes))
        /\ \A j \in 1..Len(Out) : OutSize(Out[j]) \in SeqRange(file.sizes)
        /\ \A j, k \in 1..Len(Out) : j < k => OutSize(Out[j]) # OutSize(Out[k])
        /\ \A j, k \in 1..Len(Out) : j < k => Before(OutSize(Out[j]), OutSize(Out[k]))

\* C1 witness: a load of a container that declares two sizes of equal area
\* in descending key order, one of them never decoded.
C1_Witness ==
    /\ load_out.status = "ok"
    /\ Len(file.sizes) = 2
    /\ Before(file.sizes[2], file.sizes[1])
    /\ file.sizes[1][1] * file.sizes[1][2] = file.sizes[2][1] * file.sizes[2][2]
    /\ \E j \in 1..2 : \A d \in DecodedFrames(file) : d.size # file.sizes[j]

\* C2: each entry whose size was decoded carries a decoded frame of that
\* size unchanged; every other entry is the resize of a decoded frame of
\* maximal area, never of a synthesized or of a smaller frame.
C2_DecodedVerbatimElseFromLargest ==
    load_out.status = "ok" =>
        \A j \in 1..Len(Out) :
            LET s == OutSize(Out[j])
            IN  IF \E d \in DecodedFrames(file) : d.size = s
                THEN \E d \in DecodedFrames(file) :
                        d.size = s /\ Out[j].png_bytes = EncodePNG(d)
                ELSE \E d \in DecodedFrames(file) :
                        /\ \A d2 \in DecodedFrames(file) :
                               d2.size[1] * d2.size[2] <= d.size[1] * d.size[2]
                        /\ Out[j].png_bytes = EncodePNG(Resize(d, s))

\* C2 witness: two frames decoded, the larger one first, and an entry that
\* had to be synthesized.
C2_Witness ==
    /\ load_out.status = "ok"
    /\ NDecoded(file) = 2
    /\ Area(file.frames[1]) > Area(file.frames[2])
    /\ \E j \in 1..Len(Out) : Out[j].png_bytes.img.px[1] = "resize"

\* C7: a file that opens but is not an icon container fails with the
\* not-an-icon error and yields no entries.
C7_NonIconRejected ==
    (Loaded /\ file.fmt \notin {"ICO", "unidentified"}) =>
        load_out.status = "ValueError" /\ load_out.images = <<>>

\* C7 witness: a finished load of a plain PNG.
C7_Witness == Loaded /\ file.fmt = "PNG" /\ file.frames # <<>>

\* Indices of the decoded frames of size s.
DecodedAt(f, s) == {i \in 0..(NDecoded(f) - 1) : f.frames[i + 1] = s}

\* C8 as stated: of several decoded frames of one size, the first decoded
\* is the one emitted for that size.
C8_FirstDecodedKept ==
    load_out.status = "ok" =>
        \A j \in 1..Len(Out) :
            LET at == DecodedAt(file, OutSize(Out[j]))
            IN  at # {} =>
                    Out[j].png_bytes =
                        EncodePNG(FrameAt(file, CHOOSE i \in at : \A k \in at : i <= k))

\* C8 amended: of several decoded frames of one size, the last decoded is
\* the one kept in frames_by_size and emitted for that size.
C8_LastDecodedKept ==
    load_out.status = "ok" =>
        \A j \in 1..Len(Out) :
            LET at == DecodedAt(file, OutSize(Out[j]))
            IN  at # {} =>
                    Out[j].png_bytes =
                        EncodePNG(FrameAt(file, CHOOSE i \in at : \A k \in at : i >= k))

\* C8 witness: two frames of one size decoded and that size emitted.
C8_Witness ==
    /\ load_out.status = "ok"
    /\ \E j \in 1..Len(Out) : Cardinality(DecodedAt(file, OutSize(Out[j]))) >= 2

\* C3: selected_index is None exactly when images is empty, and otherwise
\* indexes images; get_selected never indexes out of range and returns None
\* exactly when images is empty.
C3_SelectionInRange ==
    /\ (selected_index = None) <=> (images = <<>>)
    /\ selected_index # None =>
           0 <= selected_index[1] /\ selected_index[1] < Len(images)
    /\ get_selected(images, selected_index) # "IndexError"
    /\ (get_selected(images, selected_index) = "None") <=> (images = <<>>)

\* C3 witness: a select_index call has just raised on a loaded list whose
\* selection is not the first entry.
C3_Witness ==
    /\ call.op = "select_index"
    /\ call.outcome = "IndexError"
    /\ selected_index # None
    /\ selected_index # Some(0)

\* C4: a successful open_file replaces the list by the newly loaded one,
\* selects index 0 (None for an empty list) whatever was selected, and
\* returns the "WxH" labels of the new list, smallest size first.
C4_OpenReplacesAndResets ==
    (call.op = "open_file" /\ call.outcome = "ok") =>
        /\ images = load_icon(Disk[call.path]).images
        /\ selected_index = IF images # <<>> THEN Some(0) ELSE None
        /\ Len(call.ret) = Len(images)
        /\ \A j \in 1..Len(images) :
               call.ret[j] = Str(images[j].width) \o "x" \o Str(images[j].height)
        /\ \A j \in 2..Len(images) : Before(OutSize(images[1]), OutSize(images[j]))
        /\ call.path = "a.ico" => call.ret = <<"16x16", "32x32">>
        /\ call.path = "b.ico" => call.ret = <<"16x16", "32x32", "64x16">>

\* C4 witness: an open that succeeded while the third entry of a longer,
\* different list was selected.
C4_Witness ==
    /\ call.op = "open_file"
    /\ call.outcome = "ok"
    /\ prev.selected_index = Some(2)
    /\ Len(images) < Len(prev.images)
    /\ Len(images) >= 2

\* C5: select_index on an empty list never raises and leaves None; on a
\* non-empty list it raises for i < 0 and i >= len(images) and otherwise
\* sets selected_index to i.
C5_SelectIndexContract ==
    call.op = "select_index" =>
        /\ prev.images = <<>> =>
               call.outcome = "ok" /\ selected_index = None
        /\ (prev.images # <<>> /\ (call.index < 0 \/ call.index >= Len(prev.images))) =>
               call.outcome = "IndexError"
        /\ (prev.images # <<>> /\ 0 <= call.index /\ call.index < Len(prev.images)) =>
               call.outcome = "ok" /\ selected_index = Some(call.index)

\* C5 witness: select_index(len(images)) on a non-empty list has raised.
C5_Witness ==
    /\ call.op = "select_index"
    /\ prev.images # <<>>
    /\ call.index = Len(prev.images)
    /\ call.outcome = "IndexError"

\* C9: an open_file that raises leaves images, selected_index and
\* current_file as they were before the call.
C9_FailedOpenChangesNothing ==
    (call.op = "open_file" /\ call.outcome # "ok") =>
        /\ images = prev.images
        /\ selected_index = prev.selected_index
        /\ current_file = prev.current_file

\* C9 witness: open_file raised not-an-icon with a list loaded and an entry
\* other than the first selected.
C9_Witness ==
    /\ call.op = "open_file"
    /\ call.outcome = "ValueError"
    /\ images # <<>>
    /\ selected_index = Some(1)
    /\ current_file # None

\* C10: the tiles marked selected are exactly those whose index equals
\* selected_index; none is marked when selected_index is None.
C10_SelectedTileMatchesController ==
    \A j \in 1..Len(tiles) :
        tiles[j].selected <=> (selected_index = Some(tiles[j].idx))

\* C6 as stated: empty data fails with the empty-data error; non-empty data
\* is written verbatim to a .png path, re-encoded as JPEG to a .jpg/.jpeg
\* path, and fails as unsupported elsewhere; a failure writes nothing.
C6_OutcomeByDataAndExtension ==
    save_call.outcome # "none" =>
        LET d == save_call.data
            p == save_call.path
        IN  /\ d.len = 0 => save_call.outcome = ErrEmpty /\ fs = prev_fs
            /\ (d.len > 0 /\ Ext(p) = DotPng) =>
                   save_call.outcome = "ok" /\ fs = [prev_fs EXCEPT ![p] = d]
            /\ (d.len > 0 /\ Ext(p) \in {DotJpg, DotJpeg}) =>
                   /\ save_call.outcome = "ok"
                   /\ fs[p].fmt = "JPEG"
                   /\ \A o \in OutPaths \ {p} : fs[o] = prev_fs[o]
            /\ (d.len > 0 /\ Ext(p) \notin {DotPng, DotJpg, DotJpeg}) =>
                   save_call.outcome = ErrUnsupported /\ fs = prev_fs

\* C6 amended: as stated, except that on a .jpg/.jpeg path the JPEG is
\* written only if the data decodes as an image; data that does not decode
\* fails there with the decoder's error and writes nothing.
C6_OutcomeByDataDecodabilityAndExtension ==
    save_call.outcome # "none" =>
        LET d == save_call.data
            p == save_call.path
        IN  /\ d.len = 0 => save_call.outcome = ErrEmpty /\ fs = prev_fs
            /\ (d.len > 0 /\ Ext(p) = DotPng) =>
                   save_call.outcome = "ok" /\ fs = [prev_fs EXCEPT ![p] = d]
            /\ (d.len > 0 /\ Ext(p) \in {DotJpg, DotJpeg} /\ d.fmt = "PNG") =>
                   /\ save_call.outcome = "ok"
                   /\ fs[p].fmt = "JPEG"
                   /\ fs[p].img.size = d.img.size
                   /\ fs[p].img.px = <<"flatten", d.img.px, White>>
                   /\ \A o \in OutPaths \ {p} : fs[o] = prev_fs[o]
            /\ (d.len > 0 /\ Ext(p) \in {DotJpg, DotJpeg} /\ d.fmt = "raw") =>
                   save_call.outcome = ErrDecode /\ fs = prev_fs
            /\ (d.len > 0 /\ Ext(p) \notin {DotPng, DotJpg, DotJpeg}) =>
                   save_call.outcome = ErrUnsupported /\ fs = prev_fs

\* C6 witness: undecodable data was refused on a .jpg path that already
\* held a JPEG, and a .png file exists.
C6_Witness ==
    /\ save_call.outcome = ErrDecode
    /\ fs[save_call.path].fmt = "JPEG"
    /\ \E o \in OutPaths : fs[o].fmt = "PNG"

====
